---- MODULE Spec2Model ----
(***************************************************************************)
(* Interview orchestrator: the InterviewState container (src/state.py),    *)
(* the LangGraph workflow with its mock agents (src/workflow.py,           *)
(* src/agents/base.py) and the session driver (src/main.py).               *)
(*                                                                         *)
(* Python dicts are functions with a finite string domain (records);       *)
(* lists are sequences.  A value whose Python type matters to the code     *)
(* (isinstance(v, dict)) is tagged: [isdict |-> BOOLEAN, d |-> dict].      *)
(***************************************************************************)
EXTENDS Integers, Sequences, FiniteSets, TLC

VARIABLES
    obj,        \* the InterviewState object of src/state.py (its attributes)
    raised,     \* did the last container operation raise
    lastOp,     \* the last container operation
    lastPatch,  \* the argument of the last update_from_dict call
    mock,       \* mock_responses of the workflow's agents
    g,          \* the state dict of the running graph invocation
    node,       \* the node the graph runs next; "idle", END or "error" outside a run
    input,      \* the state dict the running invocation was called with
    visited,    \* the nodes the running invocation has run, in order
    sess,       \* interview_sessions[session_id]: the session's state dict
    responds,   \* respond calls made on the session
    ends,       \* invocations of the session's workflow that were routed to END
    faulty,     \* may the agents of the workflow raise
    failed,     \* did the agent raise in the last node step
    call,       \* the function called directly last, "none" before any call
    arg,        \* the argument of that call as the call left it
    ret,        \* what the last call (or the last container accessor) returned
    sessions,   \* interview_sessions: session id -> the stored state dict and its objects
    calls,      \* the start and respond requests received, in order of arrival
    listing     \* the order in which the sets of this process list the phase names

stateVars == <<obj, raised, lastOp, lastPatch>>

flowVars == <<mock, g, node, input, visited, sess, responds, ends, faulty, failed>>

callVars == <<call, arg, ret>>

storeVars == <<sessions, calls, listing>>

vars ==
    <<obj, raised, lastOp, lastPatch, mock, g, node, input, visited, sess, responds, ends,
      faulty, failed, call, arg, ret, sessions, calls, listing>>

-----------------------------------------------------------------------------
(* Bounds of the model *)

\* longest transcript the container is driven to
MaxMsgs == 2
\* longest completed_phases list the container is driven to
MaxCompleted == 2
\* node steps one graph invocation may take before the graph library gives up
MaxSteps == 6
\* respond calls made on a session
MaxResponds == 2
\* start and respond requests the session store receives
MaxCalls == 3
\* sessions the store holds
MaxSessions == 2

-----------------------------------------------------------------------------
(* Python dict and list helpers *)

EmptyDict == [k \in {} |-> ""]

Has(d, k) == k \in DOMAIN d

Get(d, k, default) == IF k \in DOMAIN d THEN d[k] ELSE default

SetKey(d, k, v) == [x \in DOMAIN d \cup {k} |-> IF x = k THEN v ELSE d[x]]

\* dict.update(e)
Update(d, e) == [x \in DOMAIN d \cup DOMAIN e |-> IF x \in DOMAIN e THEN e[x] ELSE d[x]]

Range(s) == {s[i] : i \in 1..Len(s)}

\* x in list
Contains(s, x) == \E i \in 1..Len(s) : s[i] = x

NoDuplicates(s) == \A i, j \in 1..Len(s) : s[i] = s[j] => i = j

\* a value that is a dict, and one that is not (a string, a bool, None)
Dict(d) == [isdict |-> TRUE, d |-> d]
NotDict == [isdict |-> FALSE, d |-> EmptyDict]

-----------------------------------------------------------------------------
(* src/state.py: InterviewState *)

\* keys(): the four schema keys, in the order the code lists them
keys == <<"messages", "current_phase", "completed_phases", "collected_insights">>

\* the phase values update_from_dict accepts (the literal list of line 92)
ValidPhases == {"initial", "learning_style", "career_goals", "skills_assessment", "complete"}

\* the dataclass defaults
DefaultInsights ==
    [learning_style |-> Dict(EmptyDict), career_goals |-> Dict(EmptyDict),
     skills |-> Dict(EmptyDict), initial_insights |-> Dict(EmptyDict)]

\* NewInterviewState with a default that lacks the skills category
NewInterviewState_NoSkills ==
    [messages |-> <<>>, current_phase |-> "initial", completed_phases |-> <<>>,
     collected_insights |->
        [learning_style |-> Dict(EmptyDict), career_goals |-> Dict(EmptyDict),
         initial_insights |-> Dict(EmptyDict)],
     extra |-> EmptyDict]

\* InterviewState(): the dataclass defaults of lines 9-17
NewInterviewState ==
    [messages |-> <<>>, current_phase |-> "initial", completed_phases |-> <<>>,
     collected_insights |-> DefaultInsights, extra |-> EmptyDict]

\* an operation's outcome: the object afterwards and whether it raised
Ok(s) == [obj |-> s, raised |-> FALSE]
Raise(s) == [obj |-> s, raised |-> TRUE]

\* __setitem__: setattr(self, key, value); an attribute outside the schema
\* lands in the object's __dict__ (extra)
setitem(s, key, value) ==
    IF key \in Range(keys) THEN [s EXCEPT ![key] = value]
    ELSE [s EXCEPT !.extra = SetKey(s.extra, key, value)]

\* UpdatePhase without the membership test of line 92
UpdatePhase_NoValidation(s, value) ==
    LET s1 == IF ~Contains(s.completed_phases, value) /\ s.current_phase # value
              THEN [s EXCEPT !.completed_phases = Append(@, s.current_phase)]
              ELSE s
    IN  Ok(setitem(s1, "current_phase", value))

\* UpdatePhase with the membership test placed behind the assignment
UpdatePhase_LateValidation(s, value) ==
    LET s1 == IF ~Contains(s.completed_phases, value) /\ s.current_phase # value
              THEN [s EXCEPT !.completed_phases = Append(@, s.current_phase)]
              ELSE s
    IN  IF value \notin ValidPhases
        THEN Raise(setitem(s1, "current_phase", value))
        ELSE Ok(setitem(s1, "current_phase", value))

\* update_from_dict, key current_phase (lines 91-95, then line 109)
UpdatePhase(s, value) ==
    IF value \notin ValidPhases THEN Raise(s)
    ELSE LET s1 == IF ~Contains(s.completed_phases, value) /\ s.current_phase # value
                   THEN [s EXCEPT !.completed_phases = Append(@, s.current_phase)]
                   ELSE s
         IN  Ok(setitem(s1, "current_phase", value))

\* the order in which a collected_insights patch lists its sub-keys
InsightKeyOrder == <<"learning_style", "career_goals", "skills", "initial_insights", "final_report">>

\* update_from_dict, the loop over the sub-keys of a collected_insights patch
\* (lines 100-107): in-place dict.update of the category's payload
RECURSIVE MergeInsights(_, _, _)
MergeInsights(s, d, i) ==
    IF i > Len(InsightKeyOrder) THEN Ok(s)
    ELSE LET k == InsightKeyOrder[i] IN
         IF k \notin DOMAIN d \/ k \notin DOMAIN s.collected_insights \/ ~d[k].isdict
         THEN MergeInsights(s, d, i + 1)
         ELSE IF ~s.collected_insights[k].isdict
         THEN Raise(s)     \* AttributeError: the stored payload has no update()
         ELSE MergeInsights(
                [s EXCEPT !.collected_insights[k] = Dict(Update(@.d, d[k].d))], d, i + 1)

\* update_from_dict, key collected_insights (lines 97-107, then line 109)
UpdateInsights(s, value) ==
    IF ~value.isdict THEN Raise(s)
    ELSE LET r == MergeInsights(s, value.d, 1) IN
         IF r.raised THEN r ELSE Ok(setitem(r.obj, "collected_insights", value.d))

\* UpdateKey without the `continue` of lines 87-89: an unknown key is set
UpdateKey_NoSkip(s, key, data) ==
    IF key = "current_phase" THEN UpdatePhase(s, data.current_phase)
    ELSE IF key = "collected_insights" THEN UpdateInsights(s, data.collected_insights)
    ELSE Ok(setitem(s, key, data[key]))

\* update_from_dict, one iteration of the loop over data.items() (lines 86-110)
UpdateKey(s, key, data) ==
    IF key \notin Range(keys) THEN Ok(s)
    ELSE IF key = "current_phase" THEN UpdatePhase(s, data.current_phase)
    ELSE IF key = "collected_insights" THEN UpdateInsights(s, data.collected_insights)
    ELSE Ok(setitem(s, key, data[key]))

RECURSIVE UpdateKeys(_, _, _)
UpdateKeys(s, data, i) ==
    IF i > Len(data.order) THEN Ok(s)
    ELSE LET r == UpdateKey(s, data.order[i], data) IN
         IF r.raised THEN r ELSE UpdateKeys(r.obj, data, i + 1)

\* update_from_dict(data): data.order is the insertion order of the dict's keys
update_from_dict(s, data) == UpdateKeys(s, data, 1)

\* add_message without the validation of line 120
add_message_NoValidation(s, m) == [s EXCEPT !.messages = Append(@, m)]

\* add_message (lines 117-127): m is a dict; malformed input is ignored
add_message(s, m) ==
    IF m.isdict /\ Has(m.d, "role") /\ Has(m.d, "content")
    THEN [s EXCEPT !.messages = Append(@, m)]
    ELSE s

\* get_last_message (lines 129-135)
get_last_message(s) ==
    IF Len(s.messages) > 0 THEN s.messages[Len(s.messages)] ELSE Dict(EmptyDict)

\* a returned value: its kind (the type of the value, or "method", "fallback",
\* an exception's name) and, under the field named after the kind, the value
Returns(kind, value) == [k \in {"kind", kind} |-> IF k = "kind" THEN kind ELSE value]

\* the value of a returned value
Value(r) == r[r.kind]

NoValue == Returns("none", "")

\* the kind of value each field of the container holds
KindOf(key) ==
    IF key = "messages" THEN "messages"
    ELSE IF key = "completed_phases" THEN "phases"
    ELSE IF key = "collected_insights" THEN "insights"
    ELSE "str"

\* the names the class body binds to functions: getattr finds a bound method
MethodNames ==
    {"keys", "get", "set", "dict", "copy", "update_from_dict", "add_message",
     "get_last_message"}

\* getattr(self, key): instance attributes first, then the class
getattr(s, key) ==
    IF key \in Range(keys) THEN Returns(KindOf(key), s[key])
    ELSE IF key \in DOMAIN s.extra THEN Returns(KindOf(key), s.extra[key])
    ELSE IF key \in MethodNames THEN Returns("method", key)
    ELSE Returns("AttributeError", key)

\* __getitem__ (lines 19-25): AttributeError becomes KeyError
getitem(s, key) ==
    LET r == getattr(s, key) IN
    IF r.kind = "AttributeError" THEN Returns("KeyError", key) ELSE r

\* get (lines 43-48): KeyError becomes the default
get(s, key, default) ==
    LET r == getitem(s, key) IN
    IF r.kind = "KeyError" THEN Returns("str", default) ELSE r

\* __contains__ (lines 35-37)
contains(s, key) == key \in Range(keys)

\* set (lines 50-58): an unknown key is warned about and set all the same
set(s, key, value) == Ok(setitem(s, key, value))

-----------------------------------------------------------------------------
(* Inputs the container is driven with *)

Msg(role, content) == Dict([role |-> role, content |-> content])

Msgs == {Msg("user", "hello")}

MalformedMsgs == {Dict([role |-> "user"]), Dict([content |-> "hello"]), NotDict}

PhaseInputs == ValidPhases \cup {"aggregate", "career_path", "not_a_phase"}

Visual == Dict([primary_style |-> "visual"])
Confident == Dict([confidence |-> "high"])

InsightInputs ==
    { Dict([learning_style |-> Visual]),
      Dict([learning_style |-> Confident]),
      Dict([learning_style |-> NotDict, final_report |-> Visual]),
      NotDict }

MessageInputs == {<<Msg("assistant", "welcome")>>}

\* top-level keys outside the schema
UnknownKeys == {"next", "report"}

\* the key orders of the patches
PatchOrders ==
    { <<"current_phase">>, <<"collected_insights">>, <<"messages">>,
      <<"next">>, <<"next", "report">>,
      <<"messages", "current_phase">>, <<"current_phase", "messages">> }

\* the values a patch may give a key; a key the patch does not hold gets a filler
ValuesFor(key, order, inputs, filler) == IF key \in Range(order) THEN inputs ELSE {filler}

Patches ==
    UNION { { [order |-> o, current_phase |-> p, collected_insights |-> c, messages |-> m,
               next |-> "x", report |-> "x"] :
              p \in ValuesFor("current_phase", o, PhaseInputs, "initial"),
              c \in ValuesFor("collected_insights", o, InsightInputs, NotDict),
              m \in ValuesFor("messages", o, MessageInputs, <<>>) } :
            o \in PatchOrders }

NoPatch ==
    [order |-> <<>>, current_phase |-> "initial", collected_insights |-> NotDict,
     messages |-> <<>>, next |-> "x", report |-> "x"]

-----------------------------------------------------------------------------
(* The container as a state machine: one action per public operation *)

\* a freshly constructed container, no operation called yet
ContainerNew ==
    /\ obj = NewInterviewState
    /\ raised = FALSE
    /\ lastOp = "new"
    /\ lastPatch = NoPatch

\* no workflow exists
FlowIdle ==
    /\ mock = TRUE
    /\ g = EmptyDict
    /\ node = "idle"
    /\ input = EmptyDict
    /\ visited = <<>>
    /\ sess = EmptyDict
    /\ responds = 0
    /\ ends = 0
    /\ faulty = FALSE
    /\ failed = FALSE

\* no function was called directly, no accessor has returned
CallIdle ==
    /\ call = "none"
    /\ arg = EmptyDict
    /\ ret = NoValue

\* no session is stored, no request was received
StoreIdle ==
    /\ sessions = EmptyDict
    /\ calls = <<>>
    /\ listing = <<"initial", "learning_style", "career_path", "aggregate">>

InitState == ContainerNew /\ FlowIdle /\ CallIdle /\ StoreIdle

DoUpdateFromDict ==
    \E data \in Patches :
        LET r == update_from_dict(obj, data) IN
        /\ Len(r.obj.completed_phases) <= MaxCompleted
        /\ obj' = r.obj
        /\ raised' = r.raised
        /\ lastOp' = "update_from_dict"
        /\ lastPatch' = data
        /\ UNCHANGED flowVars
        /\ UNCHANGED callVars
        /\ UNCHANGED storeVars

DoAddMessage ==
    \E m \in Msgs \cup MalformedMsgs :
        /\ Len(obj.messages) < MaxMsgs
        /\ obj' = add_message(obj, m)
        /\ raised' = FALSE
        /\ lastOp' = "add_message"
        /\ lastPatch' = [NoPatch EXCEPT !.messages = <<m>>]
        /\ ret' = NoValue
        /\ UNCHANGED flowVars
        /\ UNCHANGED <<call, arg>>
        /\ UNCHANGED storeVars

NextState == DoUpdateFromDict \/ DoAddMessage

SpecState == InitState /\ [][NextState]_vars

-----------------------------------------------------------------------------
(* The container's accessors: construction, set, get, `in` and              *)
(* get_last_message, next to add_message.                                   *)

\* the default the get calls pass
Default == "default"

\* the keys the accessors are called with
AccessKeys == Range(keys) \cup UnknownKeys \cup {"keys", "update_from_dict"}

\* the (key, value) pairs set is called with
SetInputs ==
    { [key |-> "current_phase", value |-> "learning_style"],
      [key |-> "report", value |-> "ready"],
      [key |-> "messages", value |-> <<Msg("assistant", "welcome")>>] }

\* what an accessor leaves alone
AccessFrame == UNCHANGED <<obj, mock, g, node, input, visited, sess, responds, ends,
                           faulty, failed, call, arg, sessions, calls,
                           listing>>

\* InterviewState()
DoNew ==
    /\ obj' = NewInterviewState
    /\ raised' = FALSE
    /\ lastOp' = "new"
    /\ lastPatch' = NoPatch
    /\ ret' = Returns("object", "InterviewState")
    /\ UNCHANGED flowVars
    /\ UNCHANGED <<call, arg>>
    /\ UNCHANGED storeVars

DoSet ==
    \E in \in SetInputs :
        LET r == set(obj, in.key, in.value) IN
        /\ obj' = r.obj
        /\ raised' = r.raised
        /\ lastOp' = "set"
        /\ lastPatch' = [NoPatch EXCEPT !.order = <<in.key>>, ![in.key] = in.value]
        /\ ret' = NoValue
        /\ UNCHANGED flowVars
        /\ UNCHANGED <<call, arg>>
        /\ UNCHANGED storeVars

\* state.get(key, Default)
DoGet ==
    \E key \in AccessKeys :
        /\ ret' = get(obj, key, Default)
        /\ raised' = FALSE
        /\ lastOp' = "get"
        /\ lastPatch' = [NoPatch EXCEPT !.order = <<key>>]
        /\ AccessFrame

\* key in state
DoContains ==
    \E key \in AccessKeys :
        /\ ret' = Returns("bool", contains(obj, key))
        /\ raised' = FALSE
        /\ lastOp' = "contains"
        /\ lastPatch' = [NoPatch EXCEPT !.order = <<key>>]
        /\ AccessFrame

\* state.get_last_message()
DoGetLastMessage ==
    /\ ret' = Returns("message", get_last_message(obj))
    /\ raised' = FALSE
    /\ lastOp' = "get_last_message"
    /\ lastPatch' = NoPatch
    /\ AccessFrame

NextAccess == DoNew \/ DoSet \/ DoAddMessage \/ DoGet \/ DoContains \/ DoGetLastMessage

SpecAccess == InitState /\ [][NextAccess]_vars

-----------------------------------------------------------------------------
(* src/workflow.py and src/agents/base.py: guards, agents and nodes.        *)
(* A workflow state is a dict; a key the dict lacks is outside its DOMAIN.  *)

\* langgraph.graph.END
END == "__end__"

\* messages kept by process_aggregator: result["messages"][-5:]
KeepLast == 5

\* dict.setdefault(k, v)
SetDefault(d, k, v) == IF k \in DOMAIN d THEN d ELSE SetKey(d, k, v)

\* bool(d.get(k)) for a string-valued entry of a dict
Truthy(d, k) == k \in DOMAIN d /\ d[k] # ""

\* s[-n:]
LastN(s, n) == IF Len(s) <= n THEN s ELSE SubSeq(s, Len(s) - n + 1, Len(s))

\* list(set(xs)): the distinct elements of xs, in any order
RECURSIVE SetOrders(_)
SetOrders(S) ==
    IF S = {} THEN {<<>>}
    ELSE UNION {{Append(s, x) : s \in SetOrders(S \ {x})} : x \in S}

\* a value that is not a mapping (a string, None): calling .get on it raises
NoMapping == [__class__ |-> "str"]

IsMapping(v) == "__class__" \notin DOMAIN v

\* should_end_interview, the try block (lines 34-72): the verdict, or the
\* AttributeError of `.get` on a learning_style or career_path that is no mapping
should_end_interview_try(state) ==
    LET learning_style == Get(state, "learning_style", EmptyDict)
        career_path == Get(state, "career_path", EmptyDict)
        has_insights == Get(state, "collected_insights", EmptyDict) # EmptyDict
        completed_phases == Range(Get(state, "completed_phases", <<>>))
        required_phases == {"initial", "learning_style", "career_path", "aggregate"}
        current_phase == Get(state, "current_phase", "initial")
    IN  IF ~IsMapping(learning_style) \/ ~IsMapping(career_path)
        THEN Returns("AttributeError", "get")
        ELSE Returns("bool",
                IF current_phase \in {"aggregate", "complete"}
                THEN Truthy(learning_style, "primary_style")
                     /\ Truthy(career_path, "suggested_path")
                     /\ has_insights
                     /\ required_phases \subseteq completed_phases
                ELSE FALSE)

\* should_end_interview_result without the except branch of lines 74-77
should_end_interview_result_NoExcept(state) == should_end_interview_try(state)

\* should_end_interview (lines 27-77), what the call returns: the except
\* branch turns every exception of the try block into False
should_end_interview_result(state) ==
    LET r == should_end_interview_try(state) IN
    IF r.kind = "bool" THEN r ELSE Returns("bool", FALSE)

\* should_end_interview (lines 27-77), its verdict
should_end_interview(state) == should_end_interview_result(state) = Returns("bool", TRUE)

\* should_continue (lines 23-25)
should_continue(state) == ~should_end_interview(state)

\* should_end_interview, what lines 36-40 leave in the dict it was given
should_end_interview_effect(state) ==
    SetDefault(SetDefault(SetDefault(SetDefault(SetDefault(state,
        "completed_phases", <<>>), "collected_insights", EmptyDict),
        "learning_style", EmptyDict), "career_path", EmptyDict),
        "current_phase", "initial")

\* the mock branch shared by the agents of base.py: state.copy() updated with
\* the agent's keys; `order` is the order list(set(...)) produced
AgentUpdate(state, phase, order, update) ==
    Update(state,
           Update([messages |-> Get(state, "messages", <<>>), completed_phases |-> order],
                  update))

\* the orders list(set(state.get("completed_phases", []) + [phase])) can have
AgentOrders(state, phase) ==
    SetOrders(Range(Get(state, "completed_phases", <<>>)) \cup {phase})

\* InterviewCoordinator.process (base.py 99-116)
InterviewCoordinator_process(state, mockResponses, order) ==
    IF mockResponses
    THEN AgentUpdate(state, "initial", order,
                     [current_phase |-> "learning_style", next |-> "learning_style"])
    ELSE state

\* LearningStyleAnalyzer_process with a mock branch that reports no style
LearningStyleAnalyzer_process_NoStyle(state, mockResponses, order) ==
    IF mockResponses
    THEN AgentUpdate(state, "learning_style", order,
                     [current_phase |-> "career_path", next |-> "career_path"])
    ELSE state

\* LearningStyleAnalyzer.process (base.py 128-146)
LearningStyleAnalyzer_process(state, mockResponses, order) ==
    IF mockResponses
    THEN AgentUpdate(state, "learning_style", order,
                     [learning_style |-> [primary_style |-> "hands-on"],
                      current_phase |-> "career_path", next |-> "career_path"])
    ELSE state

\* CareerPathAnalyzer.process (base.py 158-176)
CareerPathAnalyzer_process(state, mockResponses, order) ==
    IF mockResponses
    THEN AgentUpdate(state, "career_path", order,
                     [career_path |-> [suggested_path |-> "software-architect"],
                      current_phase |-> "aggregate", next |-> "aggregate"])
    ELSE state

\* InsightAggregator.process (base.py 188-209)
InsightAggregator_process(state, mockResponses, order) ==
    IF mockResponses
    THEN AgentUpdate(state, "aggregate", order,
                     [collected_insights |->
                         [learning_profile |-> Dict(Get(state, "learning_style", EmptyDict)),
                          career_goals |-> Dict(Get(state, "career_path", EmptyDict))],
                      current_phase |-> "complete", next |-> END])
    ELSE state

\* result.setdefault("completed_phases", []).append(phase)
AppendCompleted(result, phase) ==
    SetKey(result, "completed_phases", Append(Get(result, "completed_phases", <<>>), phase))

\* ForceTransition that hands the terminal sentinel on as next
ForceTransition_ToEnd(result, phase, successor) ==
    LET r1 == IF ~Contains(Get(result, "completed_phases", <<>>), phase)
              THEN AppendCompleted(result, phase)
              ELSE result
    IN  Update(r1, [next |-> END, current_phase |-> successor])

\* the tail shared by process_coordinator, process_learning and process_career:
\* complete `phase` unless the agent already did, then force the successor
ForceTransition(result, phase, successor) ==
    LET r1 == IF ~Contains(Get(result, "completed_phases", <<>>), phase)
              THEN AppendCompleted(result, phase)
              ELSE result
    IN  Update(r1, [next |-> successor, current_phase |-> successor])

\* the except branch shared by process_coordinator, process_learning and
\* process_career: a dict of three keys
ErrorResult(state, message, successor, phase) ==
    [message |-> message, next |-> successor,
     current_phase |-> Get(state, "current_phase", phase)]

\* process_coordinator (lines 79-101); `raises`: agent.process raised
process_coordinator(state, mockResponses, order, raises) ==
    IF raises
    THEN ErrorResult(state, "Error in coordinator phase", "learning_style", "initial")
    ELSE ForceTransition(InterviewCoordinator_process(state, mockResponses, order),
                         "initial", "learning_style")

\* process_learning (lines 103-125)
process_learning(state, mockResponses, order, raises) ==
    IF raises
    THEN ErrorResult(state, "Error in learning style analysis", "career_path",
                     "learning_style")
    ELSE ForceTransition(LearningStyleAnalyzer_process(state, mockResponses, order),
                         "learning_style", "career_path")

\* process_career (lines 127-149)
process_career(state, mockResponses, order, raises) ==
    IF raises
    THEN ErrorResult(state, "Error in career path analysis", "aggregate", "career_path")
    ELSE ForceTransition(CareerPathAnalyzer_process(state, mockResponses, order),
                         "career_path", "aggregate")

\* process_aggregator (lines 151-200), the try block
process_aggregator_try(state, mockResponses, order) ==
    LET has_learning_style == Truthy(Get(state, "learning_style", EmptyDict), "primary_style")
        has_career_path == Truthy(Get(state, "career_path", EmptyDict), "suggested_path")
        r0 == SetDefault(state, "completed_phases", <<>>)
        r1 == IF ~Contains(r0.completed_phases, "aggregate")
                 /\ has_learning_style /\ has_career_path
              THEN LET a == AppendCompleted(
                                Update(r0, InsightAggregator_process(state, mockResponses, order)),
                                "aggregate")
                   IN  IF Has(a, "messages")
                       THEN SetKey(a, "messages", LastN(a.messages, KeepLast))
                       ELSE a
              ELSE r0
        has_insights == Get(r1, "collected_insights", EmptyDict) # EmptyDict
    IN  IF has_learning_style /\ has_career_path /\ has_insights
           /\ Contains(r1.completed_phases, "aggregate")
        THEN Update(r1, [next |-> END, current_phase |-> "complete"])
        ELSE Update(r1, [next |-> "aggregate", current_phase |-> "aggregate"])

\* process_aggregator, the condition of line 169: the agent is called
AggregatorCallsAgent(state) ==
    /\ ~Contains(Get(state, "completed_phases", <<>>), "aggregate")
    /\ Truthy(Get(state, "learning_style", EmptyDict), "primary_style")
    /\ Truthy(Get(state, "career_path", EmptyDict), "suggested_path")

\* process_aggregator (lines 151-200): `.get` on a learning_style or
\* career_path that is no mapping raises on lines 161-162, the agent is called
\* only on line 171, and the except branch returns the state it was given
process_aggregator(state, mockResponses, order, raises) ==
    IF \/ ~IsMapping(Get(state, "learning_style", EmptyDict))
       \/ ~IsMapping(Get(state, "career_path", EmptyDict))
       \/ (raises /\ AggregatorCallsAgent(state))
    THEN state
    ELSE process_aggregator_try(state, mockResponses, order)

\* coordinator_wrapper (lines 225-241)
coordinator_wrapper(state, mockResponses, order, raises) ==
    LET s == SetDefault(SetDefault(SetDefault(SetDefault(SetDefault(SetDefault(state,
                "current_phase", "initial"), "messages", <<>>), "completed_phases", <<>>),
                "collected_insights", EmptyDict), "learning_style", EmptyDict),
                "career_path", EmptyDict)
        result == process_coordinator(s, mockResponses, order, raises)
    IN  IF Get(result, "next", "") # "coordinator"
        THEN AppendCompleted(result, "initial")
        ELSE result

\* learning_wrapper (lines 243-251)
learning_wrapper(state, mockResponses, order, raises) ==
    LET result == process_learning(SetKey(state, "current_phase", "learning_style"),
                                   mockResponses, order, raises)
    IN  IF Get(result, "next", "") # "learning_style"
        THEN AppendCompleted(result, "learning_style")
        ELSE result

\* career_wrapper (lines 253-261)
career_wrapper(state, mockResponses, order, raises) ==
    LET result == process_career(SetKey(state, "current_phase", "career_path"),
                                 mockResponses, order, raises)
    IN  IF Get(result, "next", "") # "career_path"
        THEN AppendCompleted(result, "career_path")
        ELSE result

\* aggregator_wrapper (lines 263-271)
aggregator_wrapper(state, mockResponses, order, raises) ==
    LET result == process_aggregator(SetKey(state, "current_phase", "aggregate"),
                                     mockResponses, order, raises)
    IN  IF ~Contains(Get(result, "completed_phases", <<>>), "aggregate")
        THEN AppendCompleted(result, "aggregate")
        ELSE result

\* the conditional edge leaving coordinator (lines 281-291)
coordinator_edge(x) == IF should_end_interview(x) THEN END ELSE "learning_style"

\* the conditional edge leaving learning_style (lines 293-303)
learning_edge(x) == IF should_end_interview(x) THEN END ELSE "career_path"

\* career_edge routing back to learning_style
career_edge_Back(x) == IF should_end_interview(x) THEN END ELSE "learning_style"

\* the conditional edge leaving career_path (lines 305-315)
career_edge(x) == IF should_end_interview(x) THEN END ELSE "aggregate"

\* the conditional edge leaving aggregate (lines 317-329)
aggregate_edge(x) ==
    IF \/ should_end_interview(x)
       \/ Get(x, "next", "") = END
       \/ (Get(x, "current_phase", "") = "complete"
           /\ Get(x, "collected_insights", EmptyDict) # EmptyDict)
    THEN END
    ELSE "aggregate"

\* set_entry_point("coordinator") (line 334)
EntryPoint == "coordinator"

-----------------------------------------------------------------------------
(* src/agents/specialized.py: the four phase agents.  process returns the   *)
(* dict it hands back, the state dict as the call left it, and whether the  *)
(* except branch produced the result.  The _generate_real_* methods the     *)
(* agents call without mock responses are not defined, so that call fails.  *)

AgentReturn(state, result, fellBack) == [state |-> state, result |-> result, failed |-> fellBack]

Assistant(content) == Msg("assistant", content)

CoordinatorGreeting ==
    "Hello! I'll be conducting your interview today. To start, could you tell me about how you prefer to learn new things?"

\* `xs + [x] if x not in xs else xs`
AddOnce(xs, x) == IF Contains(xs, x) THEN xs ELSE Append(xs, x)

\* InterviewCoordinatorAgent._error_response (lines 117-124)
InterviewCoordinatorAgent_error_response(state) ==
    [message |-> "I apologize, but I encountered an error processing your response.",
     next |-> Get(state, "next", "learning_style"),
     current_phase |-> Get(state, "current_phase", "initial"),
     completed_phases |-> Get(state, "completed_phases", <<>>)]

\* InterviewCoordinatorAgent.process (lines 57-115)
InterviewCoordinatorAgent_process(state, mockResponses) ==
    LET s0 == IF Get(state, "current_phase", "") = ""
              THEN SetKey(state, "current_phase", "initial") ELSE state
        s == SetDefault(SetDefault(SetDefault(s0, "messages", <<>>),
                 "completed_phases", <<>>), "collected_insights", EmptyDict)
        phase_responses ==
            [initial |->
                [next |-> "learning_style", current_phase |-> "learning_style",
                 message |-> CoordinatorGreeting,
                 completed_phases |-> AddOnce(s.completed_phases, "initial"),
                 messages |-> Append(s.messages, Assistant(CoordinatorGreeting))],
             learning_style |->
                [next |-> "career_path", current_phase |-> "career_path",
                 message |-> "Thank you for sharing your learning preferences.",
                 completed_phases |-> AddOnce(s.completed_phases, "learning_style"),
                 messages |-> Append(s.messages,
                     Assistant("Thank you for sharing your learning preferences.")),
                 learning_style |-> [preferred_methods |-> "hands-on"]],
             career_path |->
                [next |-> "aggregate", current_phase |-> "aggregate",
                 message |-> "I understand your career interests.",
                 completed_phases |-> AddOnce(s.completed_phases, "career_path"),
                 messages |-> Append(s.messages,
                     Assistant("I understand your career interests.")),
                 career_path |-> [goals |-> "software development"]]]
    IN  IF mockResponses
        THEN AgentReturn(s, Get(phase_responses, s.current_phase, phase_responses.initial), FALSE)
        ELSE AgentReturn(s, InterviewCoordinatorAgent_error_response(s), TRUE)

\* LearningStyleAnalyzerAgent._error_response (lines 177-186)
LearningStyleAnalyzerAgent_error_response(state) ==
    [messages |-> Append(Get(state, "messages", <<>>),
        Assistant("I apologize, but I encountered an error analyzing your learning style. Could you please try again?")),
     next |-> "learning_style", current_phase |-> "learning_style"]

\* LearningStyleAnalyzerAgent.process (lines 138-175)
LearningStyleAnalyzerAgent_process(state, mockResponses) ==
    IF mockResponses
    THEN LET s1 == Update(state,
                     [messages |-> Append(Get(state, "messages", <<>>),
                         Assistant("Based on our analysis, your learning style appears to be primarily visual-kinesthetic.")),
                      learning_style |-> [primary_style |-> "visual-kinesthetic"],
                      next |-> "career_path", current_phase |-> "career_path"])
             s2 == SetKey(s1, "completed_phases",
                          AddOnce(Get(s1, "completed_phases", <<>>), "learning_style"))
         IN  AgentReturn(s2, s2, FALSE)
    ELSE AgentReturn(state, LearningStyleAnalyzerAgent_error_response(state), TRUE)

\* CareerPathAnalyzerAgent._error_response (lines 239-248)
CareerPathAnalyzerAgent_error_response(state) ==
    [messages |-> Append(Get(state, "messages", <<>>),
        Assistant("I apologize, but I encountered an error analyzing your career path. Could you please try again?")),
     next |-> "career_path", current_phase |-> "career_path"]

\* CareerPathAnalyzerAgent.process (lines 200-237)
CareerPathAnalyzerAgent_process(state, mockResponses) ==
    IF mockResponses
    THEN LET s1 == Update(state,
                     [messages |-> Append(Get(state, "messages", <<>>),
                         Assistant("Based on your goals and background, here's a suggested career development path.")),
                      career_path |-> [suggested_path |-> "Full-stack Development"],
                      next |-> "aggregate", current_phase |-> "aggregate"])
             s2 == SetKey(s1, "completed_phases",
                          AddOnce(Get(s1, "completed_phases", <<>>), "career_path"))
         IN  AgentReturn(s2, s2, FALSE)
    ELSE AgentReturn(state, CareerPathAnalyzerAgent_error_response(state), TRUE)

\* InsightAggregatorAgent._error_response (lines 323-333)
InsightAggregatorAgent_error_response(state) ==
    [messages |-> Append(Get(state, "messages", <<>>),
        Assistant("I apologize, but I encountered an error generating your comprehensive report. Could you please try again?")),
     current_phase |-> "complete", collected_insights |-> EmptyDict, next |-> END]

\* InsightAggregatorAgent.process (lines 262-321): state['completed_phases']
\* on line 276 raises KeyError when the key is missing, after state.update
InsightAggregatorAgent_process(state, mockResponses) ==
    IF mockResponses
    THEN LET s1 == Update(state,
                     [messages |-> Append(Get(state, "messages", <<>>),
                         Assistant("Based on the collected insights, generate a comprehensive development report:")),
                      current_phase |-> "complete",
                      collected_insights |->
                          [final_report |-> Dict([analysis |-> "Mock analysis"])],
                      next |-> END])
         IN  IF Has(s1, "completed_phases")
             THEN LET s2 == SetKey(s1, "completed_phases",
                                   AddOnce(s1.completed_phases, "aggregate"))
                  IN  AgentReturn(s2, s2, FALSE)
             ELSE AgentReturn(s1, InsightAggregatorAgent_error_response(s1), TRUE)
    ELSE AgentReturn(state, InsightAggregatorAgent_error_response(state), TRUE)

-----------------------------------------------------------------------------
(* One graph invocation (workflow.ainvoke): a node step runs the node's     *)
(* wrapper on the graph state, writes the returned keys to the state and    *)
(* follows the node's conditional edge.                                     *)

\* the graph writes the keys a node returns over the state
WriteResult(state, result) == Update(state, result)

Nodes == {"coordinator", "learning_style", "career_path", "aggregate"}

Running == node \in Nodes

\* ainvoke(state): the run starts at the entry point
Invoke(state) ==
    /\ g' = state
    /\ input' = state
    /\ node' = EntryPoint
    /\ visited' = <<>>

NodeStep(name, result, successor, raises) ==
    /\ node = name
    /\ Len(visited) < MaxSteps
    /\ g' = WriteResult(g, result)
    /\ node' = successor
    /\ visited' = Append(visited, name)
    /\ ends' = IF successor = END THEN ends + 1 ELSE ends
    /\ failed' = raises
    /\ UNCHANGED <<mock, input, sess, responds, faulty>>
    /\ UNCHANGED stateVars
    /\ UNCHANGED callVars
    /\ UNCHANGED storeVars

\* whether agent.process raises in a node step: only a faulty agent may
Faults == IF faulty THEN BOOLEAN ELSE {FALSE}

\* the orders to consider in a node step: list(set(...)) runs in the mock
\* branch of an agent whose process is called and does not raise
StepOrders(used, state, phase) == IF used THEN AgentOrders(state, phase) ELSE {<<>>}

CoordinatorNode ==
    \E raises \in Faults :
    \E order \in StepOrders(mock /\ ~raises, g, "initial") :
        LET result == coordinator_wrapper(g, mock, order, raises) IN
        NodeStep("coordinator", result, coordinator_edge(WriteResult(g, result)), raises)

LearningNode ==
    \E raises \in Faults :
    \E order \in StepOrders(mock /\ ~raises, g, "learning_style") :
        LET result == learning_wrapper(g, mock, order, raises) IN
        NodeStep("learning_style", result, learning_edge(WriteResult(g, result)), raises)

CareerNode ==
    \E raises \in Faults :
    \E order \in StepOrders(mock /\ ~raises, g, "career_path") :
        LET result == career_wrapper(g, mock, order, raises) IN
        NodeStep("career_path", result, career_edge(WriteResult(g, result)), raises)

AggregateNode ==
    \E raises \in Faults :
    \E order \in StepOrders(mock /\ ~raises /\ AggregatorCallsAgent(g), g, "aggregate") :
        LET result == aggregator_wrapper(g, mock, order, raises) IN
        NodeStep("aggregate", result, aggregate_edge(WriteResult(g, result)),
                 raises /\ AggregatorCallsAgent(g))

\* the graph library stops a run that has taken its limit of steps and raises
RecursionLimit ==
    /\ Running
    /\ Len(visited) >= MaxSteps
    /\ node' = "error"
    /\ UNCHANGED <<mock, g, input, visited, sess, responds, ends, faulty, failed>>
    /\ UNCHANGED stateVars
    /\ UNCHANGED callVars
    /\ UNCHANGED storeVars

-----------------------------------------------------------------------------
(* Direct invocations of a compiled workflow, as tests/test_workflow.py     *)
(* makes them: workflow.ainvoke(state) on a state dict with all seven keys. *)

Transcript(n) == [i \in 1..n |-> Msg("user", "hello")]

PhaseNames == {"initial", "learning_style", "career_path", "aggregate", "complete"}

InvokeInputs ==
    { [current_phase |-> p, messages |-> m, completed_phases |-> c,
       collected_insights |-> ci, learning_style |-> ls, career_path |-> cp,
       next |-> IF p = "initial" THEN "coordinator" ELSE p] :
      p \in PhaseNames,
      m \in {<<>>, Transcript(KeepLast + 1)},
      c \in {SubSeq(<<"initial", "learning_style", "career_path", "aggregate">>, 1, n) : n \in 0..4},
      ci \in {EmptyDict, [complete |-> NotDict]},
      ls \in {EmptyDict, [primary_style |-> "visual"]},
      cp \in {EmptyDict, [suggested_path |-> "fullstack"]} }

\* states whose learning_style or career_path is not a mapping
MalformedInvokeInputs ==
    { [current_phase |-> p, messages |-> <<>>, completed_phases |-> c,
       collected_insights |-> [complete |-> NotDict], learning_style |-> a.ls,
       career_path |-> a.cp, next |-> n] :
      p \in {"initial", "aggregate"},
      c \in {<<>>, <<"initial", "learning_style", "career_path", "aggregate">>},
      a \in { [ls |-> NoMapping, cp |-> [suggested_path |-> "fullstack"]],
              [ls |-> [primary_style |-> "visual"], cp |-> NoMapping] },
      n \in {"coordinator", END} }

InitInvoke ==
    /\ ContainerNew
    /\ mock \in BOOLEAN
    /\ g \in InvokeInputs \cup MalformedInvokeInputs
    /\ input = g
    /\ node = EntryPoint
    /\ visited = <<>>
    /\ sess = EmptyDict
    /\ responds = 0
    /\ ends = 0
    /\ faulty \in BOOLEAN
    /\ failed = FALSE
    /\ CallIdle
    /\ StoreIdle

NextInvoke ==
    CoordinatorNode \/ LearningNode \/ CareerNode \/ AggregateNode \/ RecursionLimit

SpecInvoke == InitInvoke /\ [][NextInvoke]_vars

-----------------------------------------------------------------------------
(* Direct calls of the guards and of the agents' process on a state dict,   *)
(* which may lack keys.                                                     *)

\* the keys a guard reads
GuardKeys ==
    {"completed_phases", "collected_insights", "learning_style", "career_path",
     "current_phase"}

\* d without the keys of K
Without(d, K) == [k \in DOMAIN d \ K |-> d[k]]

CallInputs ==
    { Without([current_phase |-> p, messages |-> <<Msg("user", "hello")>>,
               completed_phases |-> c, collected_insights |-> ci,
               learning_style |-> [primary_style |-> "visual"],
               career_path |-> [suggested_path |-> "fullstack"], next |-> n],
              missing) :
      p \in {"initial", "aggregate", "complete"},
      c \in {<<>>, <<"initial", "learning_style", "career_path", "aggregate">>},
      ci \in {EmptyDict, [learning_style |-> Visual]},
      n \in {"aggregate", END},
      missing \in SUBSET GuardKeys }

\* what a direct call leaves alone
CallFrame == UNCHANGED <<obj, raised, lastOp, lastPatch, mock, g, node, input, visited, sess,
                         responds, ends, faulty, failed, sessions, calls, listing>>

CallShouldEnd ==
    /\ call' = "should_end_interview"
    /\ arg' = should_end_interview_effect(input)
    /\ ret' = should_end_interview_result(input)
    /\ CallFrame

CallShouldContinue ==
    /\ call' = "should_continue"
    /\ arg' = should_end_interview_effect(input)
    /\ ret' = Returns("bool", should_continue(input))
    /\ CallFrame

\* what agent.process returned: a value, or the fallback of its except branch
AgentResult(r) == Returns(IF r.failed THEN "fallback" ELSE "dict", r.result)

CallCoordinatorAgent ==
    /\ call' = "InterviewCoordinatorAgent"
    /\ arg' = InterviewCoordinatorAgent_process(input, mock).state
    /\ ret' = AgentResult(InterviewCoordinatorAgent_process(input, mock))
    /\ CallFrame

CallLearningAgent ==
    /\ call' = "LearningStyleAnalyzerAgent"
    /\ arg' = LearningStyleAnalyzerAgent_process(input, mock).state
    /\ ret' = AgentResult(LearningStyleAnalyzerAgent_process(input, mock))
    /\ CallFrame

CallCareerAgent ==
    /\ call' = "CareerPathAnalyzerAgent"
    /\ arg' = CareerPathAnalyzerAgent_process(input, mock).state
    /\ ret' = AgentResult(CareerPathAnalyzerAgent_process(input, mock))
    /\ CallFrame

CallAggregatorAgent ==
    /\ call' = "InsightAggregatorAgent"
    /\ arg' = InsightAggregatorAgent_process(input, mock).state
    /\ ret' = AgentResult(InsightAggregatorAgent_process(input, mock))
    /\ CallFrame

InitCalls ==
    /\ ContainerNew
    /\ CallIdle
    /\ StoreIdle
    /\ mock \in BOOLEAN
    /\ input \in CallInputs
    /\ g = EmptyDict
    /\ node = "idle"
    /\ visited = <<>>
    /\ sess = EmptyDict
    /\ responds = 0
    /\ ends = 0
    /\ faulty = FALSE
    /\ failed = FALSE

NextCalls ==
    CallShouldEnd \/ CallShouldContinue \/ CallCoordinatorAgent \/ CallLearningAgent
        \/ CallCareerAgent \/ CallAggregatorAgent

SpecCalls == InitCalls /\ [][NextCalls]_vars

-----------------------------------------------------------------------------
(* src/main.py: one interview session.  start_interview and                 *)
(* respond_to_interview call process_user_input, which awaits the graph     *)
(* run and then merges its result into the session's state dict.            *)

None == "None"

Greeting == "Hello! I'll be conducting your interview today."

\* the state dict start_interview builds (lines 126-138)
StartState ==
    [next |-> "learning_style", current_phase |-> "initial", message |-> Greeting,
     messages |-> <<Msg("assistant", Greeting)>>, user_responses |-> EmptyDict,
     learning_style |-> EmptyDict, career_path |-> EmptyDict, insights |-> <<>>,
     report |-> None, completed_phases |-> <<>>, session_id |-> "session"]

\* what the user may send; the empty string is the call start_interview makes
UserInputs == {"", "I like hands-on projects"}

\* process_user_input, lines 40-43
AppendUserInput(state, user_input) ==
    IF user_input # ""
    THEN LET s == SetDefault(state, "messages", <<>>) IN
         SetKey(s, "messages", Append(s.messages, Msg("user", user_input)))
    ELSE state

\* list(dict.fromkeys(xs)): first occurrences, in order
RECURSIVE FromKeys(_)
FromKeys(xs) ==
    IF xs = <<>> THEN <<>>
    ELSE LET front == FromKeys(SubSeq(xs, 1, Len(xs) - 1)) IN
         IF Contains(front, xs[Len(xs)]) THEN front ELSE Append(front, xs[Len(xs)])

\* process_user_input, the merge of one key of the result (lines 66-71)
MergeKey(state, key, value) ==
    IF key = "messages" /\ Has(state, "messages")
    THEN SetKey(state, "messages",
                state.messages \o SelectSeq(value, LAMBDA m : ~Contains(state.messages, m)))
    ELSE IF key = "completed_phases" /\ Has(state, "completed_phases")
    THEN SetKey(state, "completed_phases", FromKeys(state.completed_phases \o value))
    ELSE SetKey(state, key, value)

\* the keys of a workflow result, in the order the merge loop meets them
ResultKeyOrder ==
    <<"current_phase", "messages", "completed_phases", "collected_insights",
      "learning_style", "career_path", "next", "message", "user_responses",
      "insights", "report", "session_id">>

RECURSIVE MergeResultFrom(_, _, _)
MergeResultFrom(state, result, i) ==
    IF i > Len(ResultKeyOrder) THEN state
    ELSE LET k == ResultKeyOrder[i] IN
         MergeResultFrom(IF Has(result, k) THEN MergeKey(state, k, result[k]) ELSE state,
                         result, i + 1)

\* process_user_input, lines 61-78: merge the result, then the defaults
MergeResult(state, result) ==
    LET merged == MergeResultFrom(state, result, 1) IN
    SetDefault(SetDefault(SetDefault(SetDefault(SetDefault(SetDefault(merged,
        "current_phase", "initial"), "completed_phases", <<>>), "messages", <<>>),
        "learning_style", EmptyDict), "career_path", EmptyDict), "insights", <<>>)

NoSession == sess = EmptyDict

\* start_interview (lines 111-159) up to the await of workflow.ainvoke
StartInterview ==
    /\ node = "idle"
    /\ NoSession
    /\ sess' = StartState
    /\ mock' = TRUE
    /\ Invoke(AppendUserInput(StartState, ""))
    /\ UNCHANGED <<responds, ends, faulty, failed>>
    /\ UNCHANGED stateVars
    /\ UNCHANGED callVars
    /\ UNCHANGED storeVars

\* respond_to_interview (lines 161-189) up to the await of workflow.ainvoke
Respond ==
    \E user_input \in UserInputs :
        /\ node = "idle"
        /\ ~NoSession
        /\ responds < MaxResponds
        /\ sess' = AppendUserInput(sess, user_input)
        /\ Invoke(AppendUserInput(sess, user_input))
        /\ responds' = responds + 1
        /\ UNCHANGED <<mock, ends, faulty, failed>>
        /\ UNCHANGED stateVars
        /\ UNCHANGED callVars
        /\ UNCHANGED storeVars

\* process_user_input after the await (lines 49-99), and the handler's return
ReturnResult ==
    /\ node = END
    /\ sess' = MergeResult(sess, g)
    /\ node' = "idle"
    /\ UNCHANGED <<mock, g, input, visited, responds, ends, faulty, failed>>
    /\ UNCHANGED stateVars
    /\ UNCHANGED callVars
    /\ UNCHANGED storeVars

\* get_interview_report (lines 191-207) on the store's entry for the session
\* (EmptyDict: no entry).  The HTTPException raised inside the try block (404,
\* 400) is caught by `except Exception` and raised again with status 500.
get_interview_report(state) ==
    IF state = EmptyDict THEN Returns("HTTPException", "500: 404: Interview session not found")
    ELSE IF ~Has(state, "report") \/ state.report \in {None, ""}
    THEN Returns("HTTPException", "500: 400: Report not yet available")
    ELSE Returns("report", state.report)

InitSession == ContainerNew /\ FlowIdle /\ CallIdle /\ StoreIdle

NextSession ==
    StartInterview \/ Respond \/ CoordinatorNode \/ LearningNode \/ CareerNode
        \/ AggregateNode \/ ReturnResult

SpecSession == InitSession /\ [][NextSession]_vars

-----------------------------------------------------------------------------
(* src/main.py: a session whose workflow can fail.  An agent whose process  *)
(* raises is absorbed by its node; a run that never reaches END is stopped  *)
(* by the graph library, and workflow.ainvoke raises.                       *)

WorkflowApology == "I apologize, but I encountered an error in the workflow."

\* WorkflowError with the merge of the state the run had reached
WorkflowError_Merging(state) ==
    [response |-> WorkflowApology, state |-> MergeResult(state, g)]

\* process_user_input, the except branch of lines 101-104
WorkflowError(state) == [response |-> WorkflowApology, state |-> state]

\* process_user_input when the await raised, and the handler's return
ReturnApology ==
    LET out == WorkflowError(sess) IN
    /\ node = "error"
    /\ sess' = out.state
    /\ ret' = Returns("response", out.response)
    /\ node' = "idle"
    /\ UNCHANGED <<mock, g, input, visited, responds, ends, faulty, failed>>
    /\ UNCHANGED stateVars
    /\ UNCHANGED <<call, arg>>
    /\ UNCHANGED storeVars

\* the agents of the session's workflow may raise
InitFailing ==
    /\ ContainerNew
    /\ CallIdle
    /\ StoreIdle
    /\ mock = TRUE
    /\ g = EmptyDict
    /\ node = "idle"
    /\ input = EmptyDict
    /\ visited = <<>>
    /\ sess = EmptyDict
    /\ responds = 0
    /\ ends = 0
    /\ faulty = TRUE
    /\ failed = FALSE

NextFailing ==
    StartInterview \/ Respond \/ CoordinatorNode \/ LearningNode \/ CareerNode
        \/ AggregateNode \/ ReturnResult \/ RecursionLimit \/ ReturnApology

SpecFailing == InitFailing /\ [][NextFailing]_vars

-----------------------------------------------------------------------------
(* src/main.py: the session store under concurrent requests.  The handlers  *)
(* are coroutines on one event loop: a handler runs without interruption    *)
(* up to its `await workflow.ainvoke(state)` and again from the completion  *)
(* of that await to its return; other requests are served in between.       *)
(* An object is identified by the request that created it and the key it    *)
(* was created for, so that two references to one object can be told from   *)
(* two equal objects.                                                        *)

\* the keys of a state dict that hold a mutable object (a list or a dict)
MutableKeys ==
    {"messages", "completed_phases", "learning_style", "career_path", "user_responses",
     "insights", "collected_insights"}

\* the object request c created for key k ("state": the state dict itself)
Object(c, k) == <<c, k>>

\* StartObjects with one module-level state shared by all start requests
StartObjects_Shared(c) ==
    [k \in (DOMAIN StartState \cap MutableKeys) \cup {"state"} |-> Object(0, k)]

\* start_interview, lines 126-138: the dict display and the displays inside it
\* are evaluated in the request, which creates every object anew
StartObjects(c) ==
    [k \in (DOMAIN StartState \cap MutableKeys) \cup {"state"} |-> Object(c, k)]

\* list(set(state.get("completed_phases", []) + [phase])) in this process:
\* the hash of a string is fixed while the process lives, so its sets list
\* the phase names in one order, whichever request builds them
Listed(used, state, phase) ==
    IF used
    THEN { SelectSeq(listing,
                     LAMBDA x : x \in Range(Get(state, "completed_phases", <<>>)) \cup {phase}) }
    ELSE {<<>>}

\* what one node of the graph can return on a state, with the node its edge
\* routes to (mock agents that do not raise)
NodeResults(state, n) ==
    IF n = "coordinator"
    THEN { LET result == coordinator_wrapper(state, TRUE, order, FALSE) IN
           [result |-> result, next |-> coordinator_edge(WriteResult(state, result))] :
           order \in Listed(TRUE, state, "initial") }
    ELSE IF n = "learning_style"
    THEN { LET result == learning_wrapper(state, TRUE, order, FALSE) IN
           [result |-> result, next |-> learning_edge(WriteResult(state, result))] :
           order \in Listed(TRUE, state, "learning_style") }
    ELSE IF n = "career_path"
    THEN { LET result == career_wrapper(state, TRUE, order, FALSE) IN
           [result |-> result, next |-> career_edge(WriteResult(state, result))] :
           order \in Listed(TRUE, state, "career_path") }
    ELSE { LET result == aggregator_wrapper(state, TRUE, order, FALSE) IN
           [result |-> result, next |-> aggregate_edge(WriteResult(state, result))] :
           order \in Listed(AggregatorCallsAgent(state), state, "aggregate") }

\* the states a run of the graph can return, `frontier` being the (state,
\* node) pairs runs have reached and `steps` the steps the runs may still take
RECURSIVE RunFrom(_, _)
RunFrom(frontier, steps) ==
    LET returned == {f.state : f \in {x \in frontier : x.node = END}}
        running == {x \in frontier : x.node # END}
    IN  IF running = {} \/ steps = 0 THEN returned
        ELSE returned \cup
             RunFrom(UNION { { [state |-> WriteResult(f.state, r.result), node |-> r.next] :
                               r \in NodeResults(f.state, f.node) } : f \in running },
                     steps - 1)

\* workflow.ainvoke(state) of a workflow built with mock_responses=True
AInvoke(state) == RunFrom({[state |-> state, node |-> EntryPoint]}, MaxSteps)

\* the objects of the state dict after the merge of request c (lines 65-78):
\* the dict and its messages list are changed in place, completed_phases is
\* rebuilt, any other key is bound to the object of the result
MergeObjects(objects, state, result, merged, c) ==
    [k \in (DOMAIN merged \cap MutableKeys) \cup {"state"} |->
        IF k \in {"state", "messages"} /\ k \in DOMAIN objects THEN objects[k]
        ELSE IF k \in DOMAIN result /\ (k \notin DOMAIN state \/ result[k] # state[k])
        THEN Object(c, k)
        ELSE IF k \in DOMAIN objects THEN objects[k]
        ELSE Object(c, k)]

\* a change made through session sid's references: it shows in every entry
\* of the store that refers to the same dict, or to the same messages list
WriteThrough(entries, sid, state, objects) ==
    [s \in DOMAIN entries |->
        IF s = sid \/ entries[s].objects.state = entries[sid].objects.state
        THEN [entries[s] EXCEPT !.state = state, !.objects = objects]
        ELSE IF entries[s].objects.messages = entries[sid].objects.messages
        THEN [entries[s] EXCEPT !.state = SetKey(@, "messages", state.messages)]
        ELSE entries[s]]

\* a request that awaits workflow.ainvoke
Awaiting(c) == calls[c].pc = "awaiting"

\* start_interview (lines 111-145) up to the await inside process_user_input;
\* the session id is new (uuid4): the number of the request
StoreStart ==
    LET c == Len(calls) + 1
        state == AppendUserInput(StartState, "")
    IN  /\ Len(calls) < MaxCalls
        /\ Cardinality(DOMAIN sessions) < MaxSessions
        /\ sessions' = SetKey(sessions, c,
                          [workflow |-> c, state |-> state, objects |-> StartObjects(c)])
        /\ calls' = Append(calls, [kind |-> "start", session |-> c, input |-> state,
                                   pc |-> "awaiting"])
        /\ UNCHANGED stateVars
        /\ UNCHANGED flowVars
        /\ UNCHANGED callVars
        /\ UNCHANGED listing

\* respond_to_interview (lines 161-174) up to the await inside
\* process_user_input, for a session whose id a start request has returned
StoreRespond ==
    \E sid \in DOMAIN sessions, user_input \in UserInputs :
        LET c == Len(calls) + 1
            state == AppendUserInput(sessions[sid].state, user_input)
        IN  /\ Len(calls) < MaxCalls
            /\ ~Awaiting(sid)
            /\ sessions' = WriteThrough(sessions, sid, state, sessions[sid].objects)
            /\ calls' = Append(calls, [kind |-> "respond", session |-> sid,
                                       input |-> state, pc |-> "awaiting"])
            /\ UNCHANGED stateVars
            /\ UNCHANGED flowVars
            /\ UNCHANGED callVars
            /\ UNCHANGED listing

\* the await of a request completes with the result of the run on the state
\* the request passed: process_user_input merges the result into the state
\* dict (lines 49-99) and the handler stores the pair again (line 177)
StoreReturn ==
    \E c \in 1..Len(calls) :
        /\ Awaiting(c)
        /\ \E result \in AInvoke(calls[c].input) :
              LET sid == calls[c].session
                  state == sessions[sid].state
                  merged == MergeResult(state, result)
              IN  sessions' = WriteThrough(sessions, sid, merged,
                                  MergeObjects(sessions[sid].objects, state, result, merged, c))
        /\ calls' = [calls EXCEPT ![c].pc = "returned"]
        /\ UNCHANGED stateVars
        /\ UNCHANGED flowVars
        /\ UNCHANGED callVars
        /\ UNCHANGED listing

\* the process starts: the store is empty, the hash seed is drawn
InitStore ==
    /\ ContainerNew
    /\ FlowIdle
    /\ CallIdle
    /\ sessions = EmptyDict
    /\ calls = <<>>
    /\ listing \in SetOrders({"initial", "learning_style", "career_path", "aggregate"})

NextStore == StoreStart \/ StoreRespond \/ StoreReturn

SpecStore == InitStore /\ [][NextStore]_vars

-----------------------------------------------------------------------------
(* Claims about the state container (checked under SpecState) *)

\* the closed phase enumeration of the data model
PhaseEnumeration ==
    {"initial", "learning_style", "career_goals", "career_path", "skills_assessment",
     "aggregate", "complete"}

IsUpdate == lastOp = "update_from_dict"

\* the last call was update_from_dict({current_phase: v})
IsPhaseOnlyPatch == IsUpdate /\ lastPatch.order = <<"current_phase">>

\* the last call was update_from_dict with unrecognized top-level keys only
IsUnknownOnlyPatch ==
    /\ IsUpdate
    /\ lastPatch.order # <<>>
    /\ Range(lastPatch.order) \cap Range(keys) = {}

\* C5: monotonicity of insights.  Across every update_from_dict call the
\* categories of collected_insights, and the sub-keys populated inside each
\* category, only grow: none is removed or wholesale replaced.
C5_InsightsOnlyGrow ==
    [][IsUpdate' =>
        \A k \in DOMAIN obj.collected_insights :
            /\ k \in DOMAIN obj'.collected_insights
            /\ DOMAIN obj.collected_insights[k].d \subseteq DOMAIN obj'.collected_insights[k].d
      ]_vars

\* C6: completed-phases dedup in the container.  After any sequence of
\* update_from_dict calls that change current_phase, each phase identifier
\* appears at most once in completed_phases.
C6_CompletedPhasesDedup == NoDuplicates(obj.completed_phases)

\* C8: phase validation.  update_from_dict({current_phase: v}) with v outside
\* the phase enumeration raises and leaves messages, current_phase,
\* completed_phases and collected_insights as they were.
C8_InvalidPhaseRejected ==
    [][(IsPhaseOnlyPatch' /\ lastPatch'.current_phase \notin PhaseEnumeration) =>
        /\ raised'
        /\ obj'.messages = obj.messages
        /\ obj'.current_phase = obj.current_phase
        /\ obj'.completed_phases = obj.completed_phases
        /\ obj'.collected_insights = obj.collected_insights
      ]_vars

\* C8 witness: an unrecognized phase was rejected on a container that had
\* already moved on from its defaults
C8_Witness ==
    /\ IsPhaseOnlyPatch
    /\ lastPatch.current_phase = "not_a_phase"
    /\ raised
    /\ obj.current_phase = "learning_style"
    /\ obj.completed_phases = <<"initial">>

\* C9: merge tolerance on unknowns.  update_from_dict with a patch whose only
\* keys are unrecognized top-level keys does not raise, leaves the four
\* recognized fields unchanged and does not add the unknown key to the state.
C9_UnknownKeysIgnored ==
    [][IsUnknownOnlyPatch' =>
        /\ ~raised'
        /\ obj'.messages = obj.messages
        /\ obj'.current_phase = obj.current_phase
        /\ obj'.completed_phases = obj.completed_phases
        /\ obj'.collected_insights = obj.collected_insights
        /\ obj'.extra = obj.extra
      ]_vars

\* C9 witness: a patch of two unknown keys was merged into a populated container
C9_Witness ==
    /\ IsUnknownOnlyPatch
    /\ lastPatch.order = <<"next", "report">>
    /\ ~raised
    /\ obj.current_phase = "career_goals"
    /\ Len(obj.messages) > 0

\* C10: update_from_dict accepts a current_phase value (does not raise) if
\* and only if the value is a member of the closed phase enumeration.
C10_AcceptsExactlyEnumeration ==
    IsPhaseOnlyPatch => (~raised <=> lastPatch.current_phase \in PhaseEnumeration)

\* s is a prefix of t
IsPrefix(s, t) == Len(s) <= Len(t) /\ SubSeq(t, 1, Len(s)) = s

\* C11: when update_from_dict changes current_phase from P to a different
\* valid phase Q, P is a member of completed_phases after the call, whatever
\* completed_phases held before (also when Q itself was already in it).
C11_PreviousPhaseCompleted ==
    [][(IsUpdate' /\ obj'.current_phase # obj.current_phase) =>
        Contains(obj'.completed_phases, obj.current_phase)
      ]_vars

\* C12: update_from_dict with a messages key appends the patch's messages to
\* the transcript instead of replacing it and does not re-append a message
\* already present: the old messages are a prefix of the new ones and every
\* message added behind them is one the old transcript did not hold.
C12_MessagesAppended ==
    [][(IsUpdate' /\ ~raised' /\ Contains(lastPatch'.order, "messages")) =>
        /\ IsPrefix(obj.messages, obj'.messages)
        /\ \A i \in (Len(obj.messages) + 1)..Len(obj'.messages) :
              ~Contains(obj.messages, obj'.messages[i])
      ]_vars

\* the last call was update_from_dict with current_phase and, before or
\* behind it, keys whose own update cannot raise
IsMultiKeyPhasePatch ==
    /\ IsUpdate
    /\ Len(lastPatch.order) > 1
    /\ Contains(lastPatch.order, "current_phase")
    /\ Range(lastPatch.order) \subseteq {"current_phase", "messages"}

\* C30: when update_from_dict raises on an invalid current_phase inside a
\* multi-key patch, no key that follows current_phase in the patch has been
\* applied, the keys that precede it have been applied, and current_phase and
\* completed_phases are unchanged by the failed key.
C30_RaiseStopsPatch ==
    [][(IsMultiKeyPhasePatch' /\ raised') =>
        LET order == lastPatch'.order
            at == CHOOSE i \in 1..Len(order) : order[i] = "current_phase"
        IN  /\ obj'.current_phase = obj.current_phase
            /\ obj'.completed_phases = obj.completed_phases
            /\ \A j \in 1..Len(order) :
                  /\ j < at => obj'[order[j]] = lastPatch'[order[j]]
                  /\ j > at => obj'[order[j]] = obj[order[j]]
      ]_vars

\* C30 witness: a patch that put messages before an unrecognized phase was
\* rejected after its messages had replaced a longer transcript, on a
\* container that had moved on from its defaults
C30_Witness ==
    /\ IsMultiKeyPhasePatch
    /\ raised
    /\ lastPatch.order = <<"messages", "current_phase">>
    /\ lastPatch.current_phase = "not_a_phase"
    /\ obj.messages = lastPatch.messages
    /\ obj.current_phase = "learning_style"
    /\ obj.completed_phases = <<"initial">>

\* the last call was update_from_dict({collected_insights: <mapping>}) and
\* it returned
IsInsightsPatch ==
    /\ IsUpdate
    /\ ~raised
    /\ lastPatch.order = <<"collected_insights">>
    /\ lastPatch.collected_insights.isdict

\* C31: update_from_dict with a collected_insights patch never inserts an
\* unknown sub-key into the state's collected_insights and never stores a
\* sub-key value that is not a mapping; such sub-keys are dropped, the valid
\* sub-keys of the same patch are deep-merged and every other existing
\* category stays as it was.
C31_InsightSubKeysFiltered ==
    [][IsInsightsPatch' =>
        LET patch == lastPatch'.collected_insights.d
            before == obj.collected_insights
            after == obj'.collected_insights
        IN  /\ DOMAIN after \subseteq DOMAIN before
            /\ \A k \in DOMAIN before :
                  IF k \notin DOMAIN after THEN FALSE
                  ELSE IF k \in DOMAIN patch /\ patch[k].isdict
                  THEN after[k] = Dict(Update(before[k].d, patch[k].d))
                  ELSE after[k] = before[k]
      ]_vars

-----------------------------------------------------------------------------
(* Claims about the container's accessors (checked under SpecAccess) *)

\* a mapping that has both a role and a content
WellFormed(m) == m.isdict /\ {"role", "content"} \subseteq DOMAIN m.d

\* the marker get_last_message returns on an empty transcript: {}
EmptyMarker == Dict(EmptyDict)

\* the four keys of the schema
SchemaKeys == {"messages", "current_phase", "completed_phases", "collected_insights"}

\* the insight categories a new container holds
ContainerCategories == {"learning_style", "career_goals", "skills", "initial_insights"}

\* C14: add_message(m) with a mapping m that has both role and content
\* appends m as the last element of messages, so that get_last_message()
\* returns m; add_message with a malformed m does not raise and leaves the
\* whole state unchanged; get_last_message() on a state with no messages
\* returns the empty marker.
C14_AddMessageTolerant ==
    [][/\ lastOp' = "add_message" =>
            LET m == lastPatch'.messages[1] IN
            /\ ~raised'
            /\ IF WellFormed(m)
               THEN obj' = [obj EXCEPT !.messages = Append(obj.messages, m)]
               ELSE obj' = obj
       /\ (lastOp = "add_message" /\ lastOp' = "get_last_message"
              /\ WellFormed(lastPatch.messages[1])) =>
            ret' = Returns("message", lastPatch.messages[1])
       /\ (lastOp' = "get_last_message" /\ obj.messages = <<>>) =>
            ret' = Returns("message", EmptyMarker)
      ]_vars

\* C14 witness: get_last_message returned the message add_message appended
\* behind an earlier one, the second of the transcript
C14_Witness ==
    /\ lastOp = "get_last_message"
    /\ obj.messages = <<Msg("assistant", "welcome"), Msg("user", "hello")>>
    /\ ret = Returns("message", Msg("user", "hello"))

\* C15: get(key, default) never raises: it returns the field value for each
\* of the four schema keys and the default for every key that is not a state
\* field; `key in state` is true exactly for the schema keys.
C15_GetNeverRaises ==
    /\ lastOp = "get" =>
          LET key == lastPatch.order[1] IN
          IF key \in SchemaKeys
          THEN ret = Returns(KindOf(key), obj[key])
          ELSE ret = Returns("str", Default)
    /\ lastOp = "contains" =>
          ret = Returns("bool", lastPatch.order[1] \in SchemaKeys)

-----------------------------------------------------------------------------
(* Claims about one workflow invocation (checked under SpecInvoke) *)

Completed(state) == Get(state, "completed_phases", <<>>)

\* the invocation has returned: the graph was routed to END with result g
Returned == node = END

\* C1: single-step contract.  One invocation on a state with current_phase =
\* initial runs the coordinator node only and returns with current_phase =
\* next = learning_style and initial in completed_phases.
C1_SingleStep ==
    (mock /\ input.current_phase = "initial") =>
        /\ Range(visited) \subseteq {"coordinator"}
        /\ Returned =>
            /\ g.current_phase = "learning_style"
            /\ g.next = "learning_style"
            /\ Contains(Completed(g), "initial")

\* C2: the workflow resumes at the node of the state's current phase.  An
\* invocation with current_phase = learning_style (career_path) starts at
\* that node and returns next = career_path (aggregate) with the phase in
\* completed_phases.
C2_ResumesAtCurrentPhase ==
    (mock /\ input.current_phase \in {"learning_style", "career_path"}) =>
        /\ visited # <<>> => visited[1] = input.current_phase
        /\ Returned =>
            /\ g.next = (IF input.current_phase = "learning_style"
                         THEN "career_path" ELSE "aggregate")
            /\ Contains(Completed(g), input.current_phase)

\* C4: an invocation on a state with current_phase = aggregate, the three
\* earlier phases completed and both analyses present returns next = END with
\* aggregate completed and every collected_insights entry of the input kept.
C4_EndStateKeepsInsights ==
    ( /\ mock
      /\ input.current_phase = "aggregate"
      /\ {"initial", "learning_style", "career_path"} \subseteq Range(Completed(input))
      /\ Truthy(input.learning_style, "primary_style")
      /\ Truthy(input.career_path, "suggested_path")
      /\ Returned ) =>
        /\ g.next = END
        /\ Contains(Completed(g), "aggregate")
        /\ \A k \in DOMAIN input.collected_insights :
              /\ k \in DOMAIN g.collected_insights
              /\ g.collected_insights[k] = input.collected_insights[k]

\* C7: completed-phases dedup in the workflow.  The completed_phases list a
\* node step leaves in the graph state, and the one an invocation returns,
\* holds each phase identifier at most once.
C7_WorkflowCompletedDedup ==
    (NoDuplicates(Completed(input)) /\ visited # <<>>) => NoDuplicates(Completed(g))

\* a non-empty payload under category k of collected_insights
Populated(state, k) ==
    LET ci == Get(state, "collected_insights", EmptyDict) IN
    k \in DOMAIN ci /\ ci[k].isdict /\ ci[k].d # EmptyDict

\* the insight categories of the data model, each with the names it goes by
InsightCategories ==
    { {"learning_style"}, {"career_goals", "career_path"}, {"skills", "initial_insights"},
      {"final_report"} }

\* the step taken is a step of a node of the graph
IsNodeStep == Running /\ visited' # visited

\* the phase a node completes, and the node the graph visits after it
PhaseOf(n) == IF n = "coordinator" THEN "initial" ELSE n

SuccessorOf(n) ==
    IF n = "coordinator" THEN "learning_style"
    ELSE IF n = "learning_style" THEN "career_path"
    ELSE "aggregate"

\* C13: the transcript is append-only.  For every workflow node step the
\* messages sequence before the step is a prefix of the messages sequence
\* after it: no message is removed, truncated or reordered, however long the
\* transcript is.
C13_TranscriptAppendOnly ==
    [][IsNodeStep =>
        IsPrefix(Get(g, "messages", <<>>), Get(g', "messages", <<>>))
      ]_vars

\* C18: node failure does not advance the phase.  If the agent called by the
\* coordinator, learning_style or career_path node raises, the node's result
\* keeps current_phase at its pre-step value, does not add the node's phase
\* to completed_phases, and the graph does not move on to the successor node.
C18_FailureDoesNotAdvance ==
    [][(IsNodeStep /\ failed' /\ node \in {"coordinator", "learning_style", "career_path"}) =>
        /\ Get(g', "current_phase", "") = Get(g, "current_phase", "")
        /\ Contains(Completed(g'), PhaseOf(node)) => Contains(Completed(g), PhaseOf(node))
        /\ node' # SuccessorOf(node)
      ]_vars

\* C19: terminal guard.  Whenever an invocation is routed to END, the state
\* has a non-empty learning_style.primary_style and career_path.suggested_path,
\* every insight category of collected_insights is populated, and
\* completed_phases contains initial, learning_style, career_path and aggregate.
C19_TerminalGuard ==
    Returned =>
        /\ Truthy(Get(g, "learning_style", EmptyDict), "primary_style")
        /\ Truthy(Get(g, "career_path", EmptyDict), "suggested_path")
        /\ \A names \in InsightCategories : \E k \in names : Populated(g, k)
        /\ {"initial", "learning_style", "career_path", "aggregate"}
              \subseteq Range(Completed(g))

\* C29: in mock mode, for every input state, the learning_style node's result
\* has a non-empty learning_style.primary_style and the career_path node's
\* result a non-empty career_path.suggested_path, and each node sets
\* current_phase and next to its successor (coordinator to learning_style,
\* learning_style to career_path, career_path to aggregate).  A step in which
\* the agent raised is a failure, not a mock response.
C29_MockNodeResults ==
    [][(IsNodeStep /\ mock /\ ~failed' /\ node \in {"coordinator", "learning_style", "career_path"}) =>
        /\ g'.current_phase = SuccessorOf(node)
        /\ g'.next = SuccessorOf(node)
        /\ node = "learning_style" =>
              Has(g', "learning_style") /\ Truthy(g'.learning_style, "primary_style")
        /\ node = "career_path" =>
              Has(g', "career_path") /\ Truthy(g'.career_path, "suggested_path")
      ]_vars

\* C29 witness: a mock run that started without analyses, in the complete
\* phase, has left both after its career_path node and moves on to aggregate
C29_Witness ==
    /\ mock
    /\ ~faulty
    /\ input.current_phase = "complete"
    /\ input.learning_style = EmptyDict
    /\ input.career_path = EmptyDict
    /\ visited = <<"coordinator", "learning_style", "career_path">>
    /\ g.learning_style = [primary_style |-> "hands-on"]
    /\ g.career_path = [suggested_path |-> "software-architect"]
    /\ g.next = "aggregate"
    /\ node = "aggregate"

\* evaluating the guard on the state fails inside its try block
GuardFails(state) ==
    \/ ~IsMapping(Get(state, "learning_style", EmptyDict))
    \/ ~IsMapping(Get(state, "career_path", EmptyDict))

\* C21: guards are total.  should_end_interview never raises on the state a
\* node step leaves; when its evaluation fails internally (learning_style or
\* career_path is not a mapping) it returns False, and the graph does not
\* route to END on that step.
C21_GuardsTotal ==
    [][IsNodeStep =>
        /\ should_end_interview_result(g').kind = "bool"
        /\ GuardFails(g') =>
              /\ should_end_interview_result(g') = Returns("bool", FALSE)
              /\ node' # END
      ]_vars

\* C21 witness: a node step left a state on which the guard fails, in the
\* aggregate or complete phase with all four phases completed, and the graph
\* stayed on the aggregate node
C21_Witness ==
    /\ visited # <<>>
    /\ visited[Len(visited)] = "aggregate"
    /\ GuardFails(g)
    /\ g.current_phase \in {"aggregate", "complete"}
    /\ {"initial", "learning_style", "career_path", "aggregate"} \subseteq Range(Completed(g))
    /\ node = "aggregate"

\* the order of the phases
PhaseOrder == <<"initial", "learning_style", "career_path", "aggregate", "complete">>

\* every phase that precedes the state's current_phase is completed
PredecessorsCompleted(state) ==
    \A i, j \in 1..Len(PhaseOrder) :
        (i < j /\ Get(state, "current_phase", "") = PhaseOrder[j]) =>
            Contains(Completed(state), PhaseOrder[i])

\* C25: predecessor invariant.  After every workflow node step, also one in
\* which the agent failed, and after every respond call, every phase that
\* precedes current_phase in the order initial, learning_style, career_path,
\* aggregate, complete is a member of completed_phases; a node step never
\* removes a phase from completed_phases.
C25_PredecessorsCompleted ==
    [][/\ IsNodeStep =>
            /\ PredecessorsCompleted(g')
            /\ Range(Completed(g)) \subseteq Range(Completed(g'))
       /\ (node = END /\ node' = "idle") => PredecessorsCompleted(sess')
      ]_vars

\* the position of a node in the order of the phases
NodeRank(n) ==
    IF n = "coordinator" THEN 1
    ELSE IF n = "learning_style" THEN 2
    ELSE IF n = "career_path" THEN 3
    ELSE 4

\* C33: within one workflow invocation the nodes are visited in the fixed
\* order coordinator, learning_style, career_path, aggregate: no node is
\* visited after a node that follows it in this order, and only the
\* aggregate node may be visited more than once.
C33_FixedNodeOrder ==
    \A i, j \in 1..Len(visited) :
        i < j =>
            /\ NodeRank(visited[i]) <= NodeRank(visited[j])
            /\ (visited[i] = visited[j] => visited[i] = "aggregate")

\* C33 witness: a run has returned after the three first nodes and two
\* visits of aggregate
C33_Witness ==
    /\ Returned
    /\ visited = <<"coordinator", "learning_style", "career_path", "aggregate", "aggregate">>

\* C35: every workflow invocation terminates: for every input state with
\* well-typed fields and for both settings of mock_responses, the graph
\* reaches END after finitely many node steps, i.e. the aggregate self-loop
\* is taken only finitely often.  A run that does not reach END shows in a
\* finite prefix: a node step leads back to the same node with the same state,
\* and the library stops the run.
C35_InvocationTerminates ==
    [][(input \in InvokeInputs /\ ~faulty /\ Running) =>
        /\ node' # "error"                  \* the run is not stopped short of END
        /\ ~(node' = node /\ g' = g)       \* no step that would repeat for ever
      ]_vars

\* C37: in every state returned by the aggregate node, next is the terminal
\* sentinel END if and only if current_phase is complete; no node other than
\* aggregate ever sets next to END or current_phase to complete.
C37_EndIffComplete ==
    [][IsNodeStep =>
        IF node = "aggregate"
        THEN Get(g', "next", "") = END <=> Get(g', "current_phase", "") = "complete"
        ELSE /\ Get(g', "next", "") = END => Get(g, "next", "") = END
             /\ Get(g', "current_phase", "") = "complete" =>
                    Get(g, "current_phase", "") = "complete"
      ]_vars

\* C37 witness: the aggregate node has returned a state with next = END and
\* current_phase = complete at the end of a run that began in the initial
\* phase, after three nodes that left next and current_phase on phase names
C37_Witness ==
    /\ Returned
    /\ visited = <<"coordinator", "learning_style", "career_path", "aggregate">>
    /\ input.current_phase = "initial"
    /\ g.next = END
    /\ g.current_phase = "complete"

-----------------------------------------------------------------------------
(* Claims about direct calls of agents and guards (checked under SpecCalls) *)

PhaseAgents ==
    {"InterviewCoordinatorAgent", "LearningStyleAnalyzerAgent", "CareerPathAnalyzerAgent",
     "InsightAggregatorAgent"}

\* C17: agent fallback.  For each of the four phase agents, when process
\* fails internally it returns a fallback patch whose current_phase equals
\* the current_phase of the input state, whose next is not the terminal
\* sentinel, and which makes no change to collected_insights.
C17_AgentFallback ==
    (call \in PhaseAgents /\ ret.kind = "fallback") =>
        /\ Has(input, "current_phase") =>
              Get(Value(ret), "current_phase", "") = input.current_phase
        /\ Get(Value(ret), "next", "") # END
        /\ Has(Value(ret), "collected_insights") =>
              /\ Has(input, "collected_insights")
              /\ Value(ret).collected_insights = input.collected_insights

\* C20: guards are side-effect-free.  Evaluating should_end_interview or
\* should_continue on any state, also one that lacks some of the keys
\* completed_phases, collected_insights, learning_style, career_path and
\* current_phase, leaves that state exactly unchanged.
C20_GuardsSideEffectFree ==
    call \in {"should_end_interview", "should_continue"} => arg = input

\* C28: agent purity.  For every phase agent, process(state) leaves the state
\* object it was given unchanged (same keys, same values, same contents of
\* messages and completed_phases) and communicates its effect only through
\* the patch it returns.
C28_AgentPurity ==
    call \in PhaseAgents => (DOMAIN arg = DOMAIN input /\ arg = input)

-----------------------------------------------------------------------------
(* Claims about the session store (checked under SpecStore) *)

\* the request that took the step: the one received, or the one that returned
ActingRequest ==
    IF Len(calls') > Len(calls) THEN Len(calls')
    ELSE CHOOSE c \in 1..Len(calls) : calls'[c] # calls[c]

\* the objects the stored state of session s refers to, the dict included
ObjectsOf(entries, s) == {entries[s].objects[k] : k \in DOMAIN entries[s].objects}

\* C26: session isolation.  A start or respond call for session A leaves the
\* stored (workflow, state) pair of every other session B unchanged, and two
\* sessions never hold the same workflow, the same state object or the same
\* mutable list or mapping inside their states.
C26_SessionIsolation ==
    [][calls' # calls =>
        /\ \A s \in DOMAIN sessions :
              s # calls'[ActingRequest].session => sessions'[s] = sessions[s]
        /\ \A s1, s2 \in DOMAIN sessions' :
              s1 # s2 =>
                 /\ sessions'[s1].workflow # sessions'[s2].workflow
                 /\ ObjectsOf(sessions', s1) \cap ObjectsOf(sessions', s2) = {}
      ]_vars

\* C26 witness: two sessions are stored with different states, and the last
\* request to return was a respond call that sent a message to one of them
C26_Witness ==
    /\ Cardinality(DOMAIN sessions) = 2
    /\ Len(calls) = 3
    /\ calls[3].kind = "respond"
    /\ calls[3].pc = "returned"
    /\ Len(calls[3].input.messages) = 2
    /\ \A s1, s2 \in DOMAIN sessions : s1 # s2 => sessions[s1].state # sessions[s2].state

\* C27: at most one call is in flight per session.  A respond call is not
\* received for a session while another call for that session awaits its
\* workflow, and when a respond call merges its result the session state is
\* the one it left when it appended the user message: no other call has
\* modified it in between.
C27_OneInFlight ==
    [][/\ Len(calls') > Len(calls) =>
            \A c \in 1..Len(calls) :
                Awaiting(c) => calls[c].session # calls'[Len(calls')].session
       /\ \A c \in 1..Len(calls) :
            (calls[c].kind = "respond" /\ Awaiting(c) /\ calls'[c].pc = "returned") =>
                sessions[calls[c].session].state = calls[c].input
      ]_vars

-----------------------------------------------------------------------------
(* Claims about a session with a failing workflow (checked under SpecFailing) *)

\* the keys of the session state a failed call has to leave alone
PreservedKeys ==
    {"current_phase", "completed_phases", "learning_style", "career_path",
     "collected_insights"}

SameOn(a, b, K) == \A k \in K : (k \in DOMAIN a <=> k \in DOMAIN b) /\ (k \in DOMAIN a => a[k] = b[k])

\* C32: if workflow.ainvoke raises during process_user_input, the call returns
\* an apology message without raising, and the session state is unchanged
\* except for the appended user message: current_phase, completed_phases,
\* learning_style, career_path and collected_insights keep their pre-call
\* values.  The state handed to ainvoke is the pre-call state with at most
\* the user message appended, the session state stays equal to it while the
\* run lasts, and the failed call returns the apology with that state.
C32_FailedCallKeepsState ==
    [][/\ (node = "idle" /\ node' = EntryPoint /\ ~NoSession) =>
            /\ SameOn(input', sess, DOMAIN sess \ {"messages"})
            /\ DOMAIN input' = DOMAIN sess \cup {"messages"}
            /\ IsPrefix(Get(sess, "messages", <<>>), input'.messages)
            /\ Len(input'.messages) <= Len(Get(sess, "messages", <<>>)) + 1
       /\ (node # "idle" /\ node' # "idle") => sess' = sess
       /\ (node = "error" /\ node' = "idle") =>
            /\ ret' = Returns("response", WorkflowApology)
            /\ SameOn(sess', input, PreservedKeys)
            /\ sess' = input
      ]_vars

\* C32 witness: a respond call whose run the library stopped in the aggregate
\* self-loop has returned the apology; the run had moved on to the aggregate
\* phase, the session state has the phase it had before the call and the
\* user's message at the end of its transcript
C32_Witness ==
    /\ node = "idle"
    /\ responds > 0
    /\ ret = Returns("response", WorkflowApology)
    /\ aggregate_edge(g) = "aggregate"
    /\ g.current_phase = "aggregate"
    /\ g.messages = input.messages
    /\ sess.current_phase = "initial"
    /\ sess.completed_phases = <<>>
    /\ sess.messages[Len(sess.messages)] = Msg("user", "I like hands-on projects")

\* the step is a visit of the aggregate node that calls the agent's process
AggregatorAgentCalled ==
    /\ node = "aggregate"
    /\ visited' = Append(visited, "aggregate")
    /\ AggregatorCallsAgent(g)

-----------------------------------------------------------------------------
(* Claims about a session (checked under SpecSession) *)

\* the start or respond call has returned and the session's state is stored
CallReturned == node = "idle" /\ ~NoSession

\* C22: end-to-end scenario.  Right after a session is started its state has
\* current_phase = initial and empty completed_phases; the first respond
\* leaves current_phase = career_goals/career_path with initial and
\* learning_style completed and a non-empty learning-style insight; the second
\* respond leaves current_phase = aggregate with a non-empty career insight;
\* current_phase = complete is set only by a later, final step.
C22_EndToEndScenario ==
    CallReturned =>
        /\ responds = 0 =>
              /\ sess.current_phase = "initial"
              /\ Completed(sess) = <<>>
        /\ responds = 1 =>
              /\ sess.current_phase \in {"career_goals", "career_path"}
              /\ {"initial", "learning_style"} \subseteq Range(Completed(sess))
              /\ \/ Truthy(Get(sess, "learning_style", EmptyDict), "primary_style")
                 \/ Populated(sess, "learning_style")
        /\ responds = 2 =>
              /\ sess.current_phase = "aggregate"
              /\ \/ Truthy(Get(sess, "career_path", EmptyDict), "suggested_path")
                 \/ Populated(sess, "career_goals")
                 \/ Populated(sess, "career_path")
        /\ responds <= 2 => sess.current_phase # "complete"

\* C23: the terminal state is reached only via the aggregate node's guard.
\* In every start or respond call of a session, a node step that routes the
\* graph to END is a step of the aggregate node: no edge leaving coordinator,
\* learning_style or career_path routes to END.
C23_EndOnlyViaAggregate ==
    [][(IsNodeStep /\ node' = END) => node = "aggregate"]_vars

\* C24: no phase is revisited after completion.  Once a phase identifier is
\* in the session's completed_phases, no later start or respond call runs
\* that phase's node again or sets the session's current_phase back to it.
C24_NoPhaseRevisited ==
    [][/\ IsNodeStep => ~Contains(Completed(sess), PhaseOf(node))
       /\ (~NoSession /\ sess'.current_phase # sess.current_phase) =>
              ~Contains(Completed(sess), sess'.current_phase)
      ]_vars

\* C36: the terminal phase is absorbing at session level: once a session's
\* current_phase is complete, every later respond call on that session leaves
\* current_phase equal to complete.
C36_CompleteAbsorbing ==
    [][Get(sess, "current_phase", "") = "complete" =>
        Get(sess', "current_phase", "") = "complete"]_vars

\* C38: once a session's workflow has reached current_phase = complete,
\* get_interview_report for that session returns its report: the session
\* state's report field is non-empty from that point on.
C38_ReportAfterComplete ==
    Get(sess, "current_phase", "") = "complete" =>
        /\ get_interview_report(sess).kind = "report"
        /\ Get(sess, "report", None) \notin {None, ""}

\* C3: terminal reachability.  In mock mode, from the initial session state,
\* the workflow is routed to the terminal sentinel exactly once, and then
\* collected_insights holds non-empty learning_style, career_goals and
\* final_report categories.
C3_TerminalOnceWithReport ==
    Returned =>
        /\ ends = 1
        /\ Populated(g, "learning_style")
        /\ Populated(g, "career_goals")
        /\ Populated(g, "final_report")

====
